---- MODULE Spec2Model ----
(***************************************************************************)
(* Model of templates/segment_tree.py: the eager SegmentTree (point set,   *)
(* range sum) and the LazySegmentTree (range add with lazy propagation,    *)
(* range sum).  One object of either class is constructed from an input    *)
(* list and then driven by its public methods.                             *)
(*                                                                         *)
(* Python lists are modelled as functions over 0 .. len-1, so that node    *)
(* numbers and element positions are the ones the code uses.  A list       *)
(* access outside 0 .. len-1 raises IndexError in Python; the model        *)
(* records it in the field err and skips the rest of the operation.        *)
(***************************************************************************)
EXTENDS Integers, Sequences, FiniteSets, TLC

\* ---------------------------------------------------------------- bounds
\* longest input list in Spec
MaxN == 3
\* method calls after construction in Spec
MaxOps == 2
\* longest input list in SpecAlloc
MaxNAlloc == 6
\* method calls after construction in SpecAlloc
AllocOps == 1
\* longest input list in SpecArgs
MaxNArgs == 2
\* method calls after construction in SpecArgs
ArgOps == 1
\* sys.getrecursionlimit(): a call that would make the interpreter's stack
\* this many frames deep raises RecursionError
RecursionLimit == 1000
\* largest size of a Fenwick tree in SpecFenwick
MaxFenN == 4
\* method calls after construction in SpecFenwick
FenOps == 3
\* largest number of elements of a WeightedUnionFind in SpecUnion
MaxWufN == 3
\* method calls after construction of a UnionFind in SpecUnion
UfOps == 4
\* method calls after construction of a WeightedUnionFind in SpecUnion
WufOps == 3
\* longest list passed to two_sum / two_sum_two_pointers in SpecTwoSum
MaxTsLen == 3
\* largest n_vertices passed to topological_sort_kahn in SpecTopo
MaxTopoN == 3
\* longest edge list passed to topological_sort_kahn in SpecTopo
MaxTopoEdges == 3
\* largest number of nodes of a graph passed to dijkstra_basic in SpecDijkstra
MaxDijN == 3
\* longest input list in SpecRun
MaxNRun == 5

\* elements of the input lists
Values == {1, 2}
\* new values passed to update, deltas passed to range_update
Deltas == {-1, 0, 2}
Classes == {"SegmentTree", "LazySegmentTree"}

\* ------------------------------------------------------- list primitives
\* [0] * k
Zeros(k) == [i \in 0 .. (k - 1) |-> 0]

\* all Python lists of length k over the set S
Lists(k, S) == [0 .. (k - 1) -> S]

RECURSIVE SumRange(_, _, _)
\* sum(a[l : r + 1]) of a plain list
SumRange(a, l, r) == IF l > r THEN 0 ELSE a[l] + SumRange(a, l + 1, r)

\* -------------------------------------------------- object being executed
\* The fields of the object (tree, lazy) together with what the running
\* method has done so far: the list slots it read or wrote (touched), the
\* slots it wrote (written), the helper events in program order (trace) and
\* a raised IndexError (err).
NewObject(t, z) ==
    [tree |-> t, lazy |-> z, touched |-> {}, written |-> {}, trace |-> << >>,
     err |-> FALSE]

\* start of a public method on the object with fields t, z
Enter(t, z) == NewObject(t, z)

Log(s, ev, node) == [s EXCEPT !.trace = Append(@, [ev |-> ev, node |-> node])]

\* the slot that a[i] names in a Python list a: a negative index counts
\* from the end of the list
Slot(a, i) == IF i < 0 THEN Cardinality(DOMAIN a) + i ELSE i

\* an access to self.tree[i] / self.lazy[i]: IndexError outside the allocation
TouchTree(s, i) ==
    [s EXCEPT !.touched = @ \cup {Slot(s.tree, i)},
              !.err = @ \/ (Slot(s.tree, i) \notin DOMAIN s.tree)]

TouchLazy(s, i) ==
    [s EXCEPT !.touched = @ \cup {Slot(s.lazy, i)},
              !.err = @ \/ (Slot(s.lazy, i) \notin DOMAIN s.lazy)]

\* self.tree[i] = v
SetTree(s, i, v) ==
    IF s.err THEN s
    ELSE LET a == TouchTree(s, i)
         IN  IF a.err THEN a
             ELSE [a EXCEPT !.tree[Slot(s.tree, i)] = v,
                            !.written = @ \cup {Slot(s.tree, i)}]

\* self.lazy[i] = v
SetLazy(s, i, v) ==
    IF s.err THEN s
    ELSE LET a == TouchLazy(s, i)
         IN  IF a.err THEN a
             ELSE [a EXCEPT !.lazy[Slot(s.lazy, i)] = v,
                            !.written = @ \cup {Slot(s.lazy, i)}]

\* self.lazy[i] += v
AddLazy(s, i, v) ==
    IF s.err THEN s
    ELSE LET a == TouchLazy(s, i)
         IN  IF a.err THEN a
             ELSE [a EXCEPT !.lazy[Slot(s.lazy, i)] = @ + v,
                            !.written = @ \cup {Slot(s.lazy, i)}]

\* self.tree[i] += v
AddTree(s, i, v) ==
    IF s.err THEN s
    ELSE LET a == TouchTree(s, i)
         IN  IF a.err THEN a
             ELSE [a EXCEPT !.tree[Slot(s.tree, i)] = @ + v,
                            !.written = @ \cup {Slot(s.tree, i)}]

\* self.tree[node] = self.tree[2 * node + 1] + self.tree[2 * node + 2]
Resum(s, node) ==
    IF s.err THEN s
    ELSE LET a == TouchTree(s, 2 * node + 1)
             b == IF a.err THEN a ELSE TouchTree(a, 2 * node + 2)
         IN  IF b.err THEN b
             ELSE SetTree(b, node, b.tree[Slot(b.tree, 2 * node + 1)]
                                     + b.tree[Slot(b.tree, 2 * node + 2)])

\* the event of a re-sum of node over [start, end] just made: what the two
\* children hold at that moment and what was stored in tree[node]
LogResum(s, node, start, end) ==
    IF s.err THEN s
    ELSE [s EXCEPT !.trace = Append(@,
             [ev |-> "resum", node |-> node, start |-> start, end |-> end,
              lazy_left |-> s.lazy[2 * node + 1],
              lazy_right |-> s.lazy[2 * node + 2],
              tree_left |-> s.tree[2 * node + 1],
              tree_right |-> s.tree[2 * node + 2],
              tree_node |-> s.tree[node]])]

\* ------------------------------------------------------------ allocation
SizeHalf(k) == 2 * k

\* [0] * (4 * self.n)
Size(k) == 4 * k

\* ----------------------------------------------------------------- build
RECURSIVE build(_, _, _, _, _)

buildLeftOnly(s, arr, node, start, end) ==
    IF s.err THEN s
    ELSE IF start = end THEN SetTree(s, node, arr[start])
    ELSE LET mid == (start + end) \div 2
             s1 == build(s, arr, 2 * node + 1, start, mid)
             s2 == build(s1, arr, 2 * node + 2, mid + 1, end)
         IN  IF s2.err THEN s2 ELSE SetTree(s2, node, s2.tree[2 * node + 1])

\* SegmentTree.build and LazySegmentTree.build (the same text)
build(s, arr, node, start, end) ==
    IF s.err THEN s
    ELSE IF start = end THEN SetTree(s, node, arr[start])
    ELSE LET mid == (start + end) \div 2
             s1 == build(s, arr, 2 * node + 1, start, mid)
             s2 == build(s1, arr, 2 * node + 2, mid + 1, end)
         IN  Resum(s2, node)

\* SegmentTree.__init__
SegmentTreeInit(arr) ==
    LET k == Cardinality(DOMAIN arr)
    IN  build(NewObject(Zeros(Size(k)), << >>), arr, 0, 0, k - 1)

\* LazySegmentTree.__init__
LazySegmentTreeInit(arr) ==
    LET k == Cardinality(DOMAIN arr)
    IN  build(NewObject(Zeros(Size(k)), Zeros(Size(k))), arr, 0, 0, k - 1)

\* ------------------------------------------------ SegmentTree (eager)
RECURSIVE _update_helper(_, _, _, _, _, _)

\* _update_helper returning at once for an index outside [start, end]
_update_helper_guarded(s, idx, val, node, start, end) ==
    IF s.err THEN s
    ELSE IF idx < start \/ idx > end THEN s
    ELSE IF start = end THEN SetTree(s, node, val)
    ELSE LET mid == (start + end) \div 2
             s1 == IF idx <= mid
                   THEN _update_helper(s, idx, val, 2 * node + 1, start, mid)
                   ELSE _update_helper(s, idx, val, 2 * node + 2, mid + 1, end)
         IN  Resum(s1, node)

_update_helper_strict(s, idx, val, node, start, end) ==
    IF s.err THEN s
    ELSE IF start = end THEN SetTree(s, node, val)
    ELSE LET mid == (start + end) \div 2
             s1 == IF idx < mid
                   THEN _update_helper(s, idx, val, 2 * node + 1, start, mid)
                   ELSE _update_helper(s, idx, val, 2 * node + 2, mid + 1, end)
         IN  Resum(s1, node)

_update_helper_noresum(s, idx, val, node, start, end) ==
    IF s.err THEN s
    ELSE IF start = end THEN SetTree(s, node, val)
    ELSE LET mid == (start + end) \div 2
         IN  IF idx <= mid
             THEN _update_helper(s, idx, val, 2 * node + 1, start, mid)
             ELSE _update_helper(s, idx, val, 2 * node + 2, mid + 1, end)

_update_helper_delta(s, idx, val, node, start, end) ==
    IF s.err THEN s
    ELSE IF start = end THEN AddTree(s, node, val)
    ELSE LET mid == (start + end) \div 2
             s1 == IF idx <= mid
                   THEN _update_helper(s, idx, val, 2 * node + 1, start, mid)
                   ELSE _update_helper(s, idx, val, 2 * node + 2, mid + 1, end)
         IN  Resum(s1, node)

_update_helper(s, idx, val, node, start, end) ==
    IF s.err THEN s
    ELSE IF start = end THEN SetTree(s, node, val)
    ELSE LET mid == (start + end) \div 2
             s1 == IF idx <= mid
                   THEN _update_helper(s, idx, val, 2 * node + 1, start, mid)
                   ELSE _update_helper(s, idx, val, 2 * node + 2, mid + 1, end)
         IN  Resum(s1, node)

\* SegmentTree.update(idx, val) on an object of length k
update(s, k, idx, val) == _update_helper(s, idx, val, 0, 0, k - 1)

RECURSIVE _query_helper(_, _, _, _, _, _)
\* returns the object state and the returned sum
_query_helper(s, l, r, node, start, end) ==
    IF s.err THEN [s |-> s, ret |-> 0]
    ELSE IF r < start \/ end < l THEN [s |-> s, ret |-> 0]
    ELSE IF l <= start /\ end <= r
         THEN LET a == TouchTree(s, node)
              IN  [s |-> a, ret |-> IF a.err THEN 0 ELSE a.tree[node]]
    ELSE LET mid == (start + end) \div 2
             left == _query_helper(s, l, r, 2 * node + 1, start, mid)
             right == _query_helper(left.s, l, r, 2 * node + 2, mid + 1, end)
         IN  [s |-> right.s, ret |-> left.ret + right.ret]

\* SegmentTree.query(l, r) on an object of length k
query(s, k, l, r) == _query_helper(s, l, r, 0, 0, k - 1)

\* ------------------------------------------ LazySegmentTree (range add)

\* variants of _push with one statement changed
_push_nochildren(s, node, start, end) ==
    IF s.err THEN s
    ELSE LET a == TouchLazy(Log(s, "push", node), node)
         IN  IF a.err THEN a
             ELSE IF a.lazy[node] # 0
             THEN LET p == a.lazy[node]
                      b == AddTree(a, node, (end - start + 1) * p)
                  IN  SetLazy(b, node, 0)
             ELSE a

_push_overwrite(s, node, start, end) ==
    IF s.err THEN s
    ELSE LET a == TouchLazy(Log(s, "push", node), node)
         IN  IF a.err THEN a
             ELSE IF a.lazy[node] # 0
             THEN LET p == a.lazy[node]
                      b == AddTree(a, node, (end - start + 1) * p)
                      c == IF start # end
                           THEN SetLazy(SetLazy(b, 2 * node + 1, p), 2 * node + 2, p)
                           ELSE b
                  IN  SetLazy(c, node, 0)
             ELSE a

_push_keep(s, node, start, end) ==
    IF s.err THEN s
    ELSE LET a == TouchLazy(Log(s, "push", node), node)
         IN  IF a.err THEN a
             ELSE IF a.lazy[node] # 0
             THEN LET p == a.lazy[node]
                      b == AddTree(a, node, (end - start + 1) * p)
                  IN  IF start # end
                      THEN AddLazy(AddLazy(b, 2 * node + 1, p), 2 * node + 2, p)
                      ELSE b
             ELSE a

_push_unscaled(s, node, start, end) ==
    IF s.err THEN s
    ELSE LET a == TouchLazy(Log(s, "push", node), node)
         IN  IF a.err THEN a
             ELSE IF a.lazy[node] # 0
             THEN LET p == a.lazy[node]
                      b == AddTree(a, node, p)
                      c == IF start # end
                           THEN AddLazy(AddLazy(b, 2 * node + 1, p), 2 * node + 2, p)
                           ELSE b
                  IN  SetLazy(c, node, 0)
             ELSE a

\* _push handing the pending amount to the two child slots of a leaf as well
_push_leaftoo(s, node, start, end) ==
    IF s.err THEN s
    ELSE LET a == TouchLazy(Log(s, "push", node), node)
         IN  IF a.err THEN a
             ELSE IF a.lazy[node] # 0
             THEN LET p == a.lazy[node]
                      b == AddTree(a, node, (end - start + 1) * p)
                      c == AddLazy(AddLazy(b, 2 * node + 1, p), 2 * node + 2, p)
                  IN  SetLazy(c, node, 0)
             ELSE a

\* LazySegmentTree._push: apply lazy[node] to tree[node], hand it to the
\* children of a non-leaf, clear it
_push(s, node, start, end) ==
    IF s.err THEN s
    ELSE LET a == TouchLazy(Log(s, "push", node), node)
         IN  IF a.err THEN a
             ELSE IF a.lazy[node] # 0
             THEN LET p == a.lazy[node]
                      b == AddTree(a, node, (end - start + 1) * p)
                      c == IF start # end
                           THEN AddLazy(AddLazy(b, 2 * node + 1, p), 2 * node + 2, p)
                           ELSE b
                  IN  SetLazy(c, node, 0)
             ELSE a

RECURSIVE _range_update_helper(_, _, _, _, _, _, _)

_range_update_helper_nopush(s, l, r, val, node, start, end) ==
    IF s.err THEN s
    ELSE LET s1 == _push(s, node, start, end)
             s2 == Log(s1, "test_outside", node)
             s3 == Log(s2, "test_inside", node)
         IN  IF s1.err THEN s1
             ELSE IF r < start \/ end < l THEN s2
             ELSE IF l <= start /\ end <= r
                  THEN AddLazy(s3, node, val)
             ELSE LET mid == (start + end) \div 2
                      s4 == _range_update_helper(s3, l, r, val, 2 * node + 1, start, mid)
                      s5 == _range_update_helper(s4, l, r, val, 2 * node + 2, mid + 1, end)
                  IN  Resum(s5, node)

\* _range_update_helper leaving the delta of a wholly covered node in lazy,
\* without the second _push
_range_update_helper_lazycover(s, l, r, val, node, start, end) ==
    IF s.err THEN s
    ELSE LET s1 == _push(s, node, start, end)
             s2 == Log(s1, "test_outside", node)
             s3 == Log(s2, "test_inside", node)
         IN  IF s1.err THEN s1
             ELSE IF r < start \/ end < l THEN s2
             ELSE IF l <= start /\ end <= r
                  THEN AddLazy(s3, node, val)
             ELSE LET mid == (start + end) \div 2
                      s4 == _range_update_helper(s3, l, r, val, 2 * node + 1, start, mid)
                      s5 == _range_update_helper(s4, l, r, val, 2 * node + 2, mid + 1, end)
                  IN  LogResum(Resum(s5, node), node, start, end)

\* LazySegmentTree._range_update_helper
_range_update_helper(s, l, r, val, node, start, end) ==
    IF s.err THEN s
    ELSE LET s1 == _push(s, node, start, end)
             s2 == Log(s1, "test_outside", node)
             s3 == Log(s2, "test_inside", node)
         IN  IF s1.err THEN s1
             ELSE IF r < start \/ end < l THEN s2
             ELSE IF l <= start /\ end <= r
                  THEN _push(AddLazy(s3, node, val), node, start, end)
             ELSE LET mid == (start + end) \div 2
                      s4 == _range_update_helper(s3, l, r, val, 2 * node + 1, start, mid)
                      s5 == _range_update_helper(s4, l, r, val, 2 * node + 2, mid + 1, end)
                  IN  LogResum(Resum(s5, node), node, start, end)

\* LazySegmentTree.range_update(l, r, val) on an object of length k
range_update(s, k, l, r, val) == _range_update_helper(s, l, r, val, 0, 0, k - 1)

RECURSIVE _range_query_helper(_, _, _, _, _, _)

_range_query_helper_latepush(s, l, r, node, start, end) ==
    IF s.err THEN [s |-> s, ret |-> 0]
    ELSE LET s1 == Log(s, "test_outside", node)
         IN  IF r < start \/ end < l THEN [s |-> s1, ret |-> 0]
             ELSE LET s3 == Log(s1, "test_inside", node)
                  IN  IF l <= start /\ end <= r
                      THEN LET a == TouchTree(s3, node)
                               v == IF a.err THEN 0 ELSE a.tree[node]
                           IN  [s |-> _push(a, node, start, end), ret |-> v]
                      ELSE LET s2 == _push(s3, node, start, end)
                               mid == (start + end) \div 2
                               left == _range_query_helper(s2, l, r, 2 * node + 1, start, mid)
                               right == _range_query_helper(left.s, l, r, 2 * node + 2, mid + 1, end)
                           IN  [s |-> right.s, ret |-> left.ret + right.ret]

\* LazySegmentTree._range_query_helper: returns the object state and the sum
_range_query_helper(s, l, r, node, start, end) ==
    IF s.err THEN [s |-> s, ret |-> 0]
    ELSE LET s1 == Log(s, "test_outside", node)
         IN  IF r < start \/ end < l THEN [s |-> s1, ret |-> 0]
             ELSE LET s2 == _push(s1, node, start, end)
                      s3 == Log(s2, "test_inside", node)
                  IN  IF s2.err THEN [s |-> s2, ret |-> 0]
                      ELSE IF l <= start /\ end <= r
                      THEN LET a == TouchTree(s3, node)
                           IN  [s |-> a, ret |-> IF a.err THEN 0 ELSE a.tree[node]]
                      ELSE LET mid == (start + end) \div 2
                               left == _range_query_helper(s3, l, r, 2 * node + 1, start, mid)
                               right == _range_query_helper(left.s, l, r, 2 * node + 2, mid + 1, end)
                           IN  [s |-> right.s, ret |-> left.ret + right.ret]

\* LazySegmentTree.range_query(l, r) on an object of length k
range_query(s, k, l, r) == _range_query_helper(s, l, r, 0, 0, k - 1)

\* ---------------------------------------------------------- the program
VARIABLES
    cls,      \* class of the object: "SegmentTree" or "LazySegmentTree"
    n,        \* self.n
    tree,     \* self.tree
    lazy,     \* self.lazy (the empty list for a SegmentTree, which has none)
    op,       \* the last call: its method name and arguments
    ret,      \* what the last call returned ("None" for a call returning nothing)
    touched,  \* slots of tree / lazy the last call read or wrote
    written,  \* slots of tree / lazy the last call wrote
    trace,    \* push, range-test and re-sum events of the last call, in program order
    err,      \* the last call raised IndexError
    ref,      \* the plain list the caller has in mind: input list plus updates
    before,   \* one-element sums query(i, i) as they were before the last call
    budget,   \* calls the caller still makes
    ctor,     \* a constructor or method call still running: its recursive calls
    fen,      \* a FenwickTree / FenwickTreeRangeUpdate object and its last call
    uf,       \* a UnionFind / WeightedUnionFind object and its last call
    ts,       \* a call of two_sum / two_sum_two_pointers
    topo,     \* a call of topological_sort_kahn
    dij       \* a call of dijkstra_basic

vars ==
    <<cls, n, tree, lazy, op, ret, touched, written, trace, err, ref, before,
      budget, ctor, fen, uf, ts, topo, dij>>

\* the segment-tree variables
segVars ==
    <<cls, n, tree, lazy, op, ret, touched, written, trace, err, ref, before,
      budget, ctor>>

\* no constructor is running
CtorDone ==
    [pc |-> "done", start |-> 0, end |-> 0, depth |-> 0, builds |-> 0,
     exc |-> "none"]

\* the script under execution has created no such object / made no such call
NoObject == [cls |-> "none"]

\* What query(l, r) / range_query(l, r) would return on given fields
Ask(c, k, t, z, l, r) ==
    IF c = "SegmentTree"
    THEN query(Enter(t, z), k, l, r)
    ELSE range_query(Enter(t, z), k, l, r)

Answer(c, k, t, z, l, r) == Ask(c, k, t, z, l, r).ret

\* [query(i, i) for i in range(n)] on given fields
PointValues(c, k, t, z) == [i \in 0 .. (k - 1) |-> Answer(c, k, t, z, i, i)]

Construct(c, arr) ==
    IF c = "SegmentTree" THEN SegmentTreeInit(arr) ELSE LazySegmentTreeInit(arr)

Call(name, l, r, val) == [name |-> name, l |-> l, r |-> r, val |-> val]

\* st = SegmentTree(arr)  /  lst = LazySegmentTree(arr)
InitWith(maxLen, elems, calls) ==
    \E c \in Classes, k \in 1 .. maxLen :
      \E arr \in Lists(k, elems) :
        LET s == Construct(c, arr)
        IN  /\ cls = c
            /\ n = k
            /\ tree = s.tree
            /\ lazy = s.lazy
            /\ op = Call("__init__", 0, k - 1, 0)
            /\ ret = "None"
            /\ touched = s.touched
            /\ written = s.written
            /\ trace = s.trace
            /\ err = s.err
            /\ ref = arr
            /\ before = arr
            /\ budget = calls
            /\ ctor = CtorDone
            /\ fen = NoObject
            /\ uf = NoObject
            /\ ts = NoObject
            /\ topo = NoObject
            /\ dij = NoObject

Init == InitWith(MaxN, Values, MaxOps)

InitAlloc == InitWith(MaxNAlloc, {1}, AllocOps)

\* the object state s left by a call, and the caller's bookkeeping
Finish(s, call, result, newRef) ==
    /\ tree' = s.tree
    /\ lazy' = s.lazy
    /\ op' = call
    /\ ret' = result
    /\ touched' = s.touched
    /\ written' = s.written
    /\ trace' = s.trace
    /\ err' = s.err
    /\ ref' = newRef
    /\ before' = PointValues(cls, n, tree, lazy)
    /\ budget' = budget - 1
    /\ UNCHANGED <<cls, n, ctor, fen, uf, ts, topo, dij>>

CanCall(c) == cls = c /\ ~err /\ budget > 0

\* st.update(idx, val)
Update ==
    /\ CanCall("SegmentTree")
    /\ \E idx \in 0 .. (n - 1), val \in Deltas :
         Finish(update(Enter(tree, lazy), n, idx, val),
                Call("update", idx, idx, val), "None",
                [ref EXCEPT ![idx] = val])

\* st.query(l, r)
Query ==
    /\ CanCall("SegmentTree")
    /\ \E l \in 0 .. (n - 1) : \E r \in l .. (n - 1) :
         LET q == query(Enter(tree, lazy), n, l, r)
         IN  Finish(q.s, Call("query", l, r, 0), q.ret, ref)

\* lst.range_update(l, r, val)
RangeUpdate ==
    /\ CanCall("LazySegmentTree")
    /\ \E l \in 0 .. (n - 1) : \E r \in l .. (n - 1) : \E val \in Deltas :
         Finish(range_update(Enter(tree, lazy), n, l, r, val),
                Call("range_update", l, r, val), "None",
                [i \in 0 .. (n - 1) |->
                    IF l <= i /\ i <= r THEN ref[i] + val ELSE ref[i]])

\* lst.range_query(l, r)
RangeQuery ==
    /\ CanCall("LazySegmentTree")
    /\ \E l \in 0 .. (n - 1) : \E r \in l .. (n - 1) :
         LET q == range_query(Enter(tree, lazy), n, l, r)
         IN  Finish(q.s, Call("range_query", l, r, 0), q.ret, ref)

Next == Update \/ Query \/ RangeUpdate \/ RangeQuery

Spec == Init /\ [][Next]_vars

SpecAlloc == InitAlloc /\ [][Next]_vars

\* ------------------------------------------------- derived quantities
RECURSIVE Shape(_, _, _)
\* the nodes of the tree with the range each one covers, as build visits them
Shape(node, start, end) ==
    IF start = end THEN {<<node, start, end>>}
    ELSE LET mid == (start + end) \div 2
         IN  {<<node, start, end>>}
               \cup Shape(2 * node + 1, start, mid)
               \cup Shape(2 * node + 2, mid + 1, end)

Indices == 0 .. (n - 1)
Ranges == {lr \in Indices \X Indices : lr[1] <= lr[2]}
IsLazy == cls = "LazySegmentTree"
IsEager == cls = "SegmentTree"

\* query(l, r) / range_query(l, r) asked of the current object
Now(l, r) == Answer(cls, n, tree, lazy, l, r)

\* ------------------------------------------------------------------ C1
\* C1: after range_update(l, r, d) the one-element sum range_query(i, i) of
\* every index i in [l, r] is exactly d larger than before the call, and that
\* of every index outside [l, r] is unchanged.
C1_RangeUpdateAddsDelta ==
    op.name = "range_update" =>
        \A i \in Indices :
            Now(i, i) = before[i] + (IF op.l <= i /\ i <= op.r THEN op.val ELSE 0)

\* a range_update with a non-zero delta on a proper sub-range, made on an
\* object that already had an update applied
C1_Witness ==
    /\ op.name = "range_update"
    /\ op.val # 0
    /\ op.l > 0
    /\ \E i \in Indices : before[i] \notin Values
    /\ Now(op.l, op.l) = before[op.l] + op.val
    /\ Now(0, 0) = before[0]

\* ------------------------------------------------------------------ C2
\* C2: the lazy tree refines a plain list: every range_query(l, r) returns
\* the sum over [l, r] of the input list with every update's delta added to
\* the indices of its range, both for the call just made and for any call
\* that could be made next.
C2_LazyRefinesList ==
    IsLazy =>
        /\ \A lr \in Ranges : Now(lr[1], lr[2]) = SumRange(ref, lr[1], lr[2])
        /\ op.name = "range_query" => ret = SumRange(ref, op.l, op.r)

\* a range_query over several elements answered while updates are pending
C2_Witness ==
    /\ op.name = "range_query"
    /\ op.l < op.r
    /\ \E i \in DOMAIN lazy : lazy[i] # 0
    /\ \E i \in op.l .. op.r : ref[i] \notin Values
    /\ ret = SumRange(ref, op.l, op.r)

\* ------------------------------------------------------------------ C3
\* C3: the eager tree refines a plain list for every n >= 1: right after
\* update(index, x), query(index, index) = x, and every query(l, r) equals
\* the sum of the current elements in [l, r], update being an absolute set.
C3_EagerRefinesList ==
    IsEager =>
        /\ \A lr \in Ranges : Now(lr[1], lr[2]) = SumRange(ref, lr[1], lr[2])
        /\ op.name = "update" => Now(op.l, op.l) = op.val
        /\ op.name = "query" => ret = SumRange(ref, op.l, op.r)

\* the single-element tree after update(0, x) with x a new value
C3_Witness ==
    /\ IsEager
    /\ n = 1
    /\ op.name = "update"
    /\ op.val # before[0]
    /\ Now(0, 0) = op.val

\* ------------------------------------------------------------------ C4
\* C4: immediately after construction from v, the full-range query
\* query(0, n-1) (range_query(0, n-1)) equals sum(v), for both classes.
C4_BuildSum ==
    op.name = "__init__" => Now(0, n - 1) = SumRange(ref, 0, n - 1)

\* a freshly built tree over three unequal elements
C4_Witness ==
    /\ op.name = "__init__"
    /\ n = 3
    /\ ref[0] # ref[1]
    /\ ref[1] # ref[2]
    /\ Now(0, n - 1) = ref[0] + ref[1] + ref[2]

\* ------------------------------------------------------------------ C5
\* C5: range_update(l1, r1, d1) followed directly by range_update(l2, r2, d2)
\* on overlapping ranges changes range_query(i, i) by exactly d1 + d2 for
\* every index i in both ranges.
C5_OverlapAdditive ==
    [][ (op.name = "range_update" /\ op'.name = "range_update") =>
          \A i \in Indices :
              (op.l <= i /\ i <= op.r /\ op'.l <= i /\ i <= op'.r) =>
                  Answer(cls, n, tree', lazy', i, i) = before[i] + op.val + op'.val
      ]_vars

\* the second of two updates, both with non-zero delta, whose ranges share an
\* index the first one changed
C5_Witness ==
    /\ op.name = "range_update"
    /\ budget = MaxOps - 2
    /\ op.val # 0
    /\ \E i \in op.l .. op.r :
          /\ before[i] \notin Values
          /\ Now(i, i) = before[i] + op.val

\* ------------------------------------------------------------------ C6
\* C6: a query changes no answer: after query(l, r) / range_query(l, r),
\* every query (the same one again or any other) returns what it would have
\* returned before that call, although range_query rewrites tree and lazy.
C6_QueriesDoNotDrift ==
    [][ op'.name \in {"query", "range_query"} =>
          \A lr \in Ranges :
              Answer(cls, n, tree', lazy', lr[1], lr[2])
                = Answer(cls, n, tree, lazy, lr[1], lr[2])
      ]_vars

\* a range_query that pushed pending amounts, so that it wrote tree and lazy
C6_Witness ==
    /\ op.name = "range_query"
    /\ written # {}
    /\ ret = SumRange(ref, op.l, op.r)

\* ------------------------------------------------------------------ C7
\* C7: in the eager tree every internal node holds the sum of its two
\* children and the leaf covering index k holds the current element k.
C7_EagerInvariant ==
    IsEager =>
        \A nd \in Shape(0, 0, n - 1) :
            IF nd[2] = nd[3]
            THEN tree[nd[1]] = ref[nd[2]]
            ELSE tree[nd[1]] = tree[2 * nd[1] + 1] + tree[2 * nd[1] + 2]

\* an update that changed an element of a tree with internal nodes below the
\* root
C7_Witness ==
    /\ IsEager
    /\ n = 3
    /\ op.name = "update"
    /\ op.val # before[op.l]
    /\ tree[0] = tree[1] + tree[2]

\* ------------------------------------------------------------------ C8
RECURSIVE ShapeOwed(_, _, _, _)
\* the nodes with their ranges, each with the sum of lazy over the node's
\* proper ancestors
ShapeOwed(node, start, end, above) ==
    IF start = end THEN {<<node, start, end, above>>}
    ELSE LET mid == (start + end) \div 2
             below == above + lazy[node]
         IN  {<<node, start, end, above>>}
               \cup ShapeOwed(2 * node + 1, start, mid, below)
               \cup ShapeOwed(2 * node + 2, mid + 1, end, below)

\* C8 as stated: between operations tree[i] is the sum of node i's range with
\* lazy[i] itself already applied; only what is pending at proper ancestors
\* is still missing from it.
C8_TreeIncludesOwnLazy ==
    IsLazy =>
        \A nd \in ShapeOwed(0, 0, n - 1, 0) :
            tree[nd[1]] = SumRange(ref, nd[2], nd[3]) - (nd[3] - nd[2] + 1) * nd[4]

\* C8 amended: between operations tree[i] does not yet contain lazy[i]: the sum
\* of node i's range is tree[i] plus the range length times the sum of lazy
\* over i and its ancestors, so a non-zero lazy[i] is owed to tree[i] as well
\* as to i's children.
C8_TreeExcludesOwnLazy ==
    IsLazy =>
        \A nd \in ShapeOwed(0, 0, n - 1, 0) :
            tree[nd[1]] = SumRange(ref, nd[2], nd[3])
                            - (nd[3] - nd[2] + 1) * (nd[4] + lazy[nd[1]])

\* an internal node below the root with a pending amount that its tree entry
\* lacks
C8_Witness ==
    /\ IsLazy
    /\ n = 3
    /\ lazy[1] # 0
    /\ tree[1] = ref[0] + ref[1] - 2 * lazy[1]

\* ------------------------------------------------------------------ C9
\* C9: no call raises IndexError and every slot of tree and lazy that a call
\* reads or writes, the children written by _push included, is in 0 .. 4n-1.
C9_AllocationSuffices ==
    /\ ~err
    /\ touched \subseteq 0 .. (4 * n - 1)

\* a call on the longest list that wrote a slot in the upper half of the
\* allocation
C9_Witness ==
    /\ n = MaxNAlloc
    /\ op.name = "range_update"
    /\ \E i \in written : i >= 2 * n
    /\ \E i \in DOMAIN lazy : i >= 2 * n /\ lazy[i] # 0

\* ----------------------------------------------------------------- C10
Visited == {trace[k].node : k \in DOMAIN trace}
PushedBefore(k) ==
    \E j \in 1 .. (k - 1) : trace[j].ev = "push" /\ trace[j].node = trace[k].node
TestedInside(node) ==
    \E k \in DOMAIN trace : trace[k].ev = "test_inside" /\ trace[k].node = node
Pushed(node) ==
    \E k \in DOMAIN trace : trace[k].ev = "push" /\ trace[k].node = node

\* C10 as stated: during range_query every visited node runs _push before its
\* outside / inside / partial test is evaluated.
C10_PushBeforeAnyTest ==
    op.name = "range_query" =>
        \A k \in DOMAIN trace :
            trace[k].ev \in {"test_outside", "test_inside"} => PushedBefore(k)

\* C10 amended: during range_query every visited node that is not wholly
\* outside the queried range runs _push before its inside / partial test is
\* evaluated; the outside test is evaluated before _push, and a node wholly
\* outside returns 0 without running _push.  range_update runs _push before
\* every test of every visited node.
C10_PushBeforeInsideTest ==
    /\ op.name = "range_query" =>
          /\ \A k \in DOMAIN trace :
                /\ trace[k].ev = "test_inside" => PushedBefore(k)
                /\ trace[k].ev = "test_outside" => ~PushedBefore(k)
          /\ \A node \in Visited : Pushed(node) <=> TestedInside(node)
    /\ op.name = "range_update" =>
          \A k \in DOMAIN trace :
              trace[k].ev \in {"test_outside", "test_inside"} => PushedBefore(k)

\* a range_query that visited a node wholly outside its range and left that
\* node's pending amount in place
C10_Witness ==
    /\ op.name = "range_query"
    /\ \E node \in Visited :
          /\ ~TestedInside(node)
          /\ ~Pushed(node)
          /\ lazy[node] # 0
    /\ \E node \in Visited : TestedInside(node) /\ Pushed(node)

\* ------------------------------------- calls with arbitrary arguments
\* The methods check no argument: the same helpers run on any integers.
ArgIndices == (0 - 1) .. n

ValidIndex(i) == 0 <= i /\ i < n
ValidRange(l, r) == 0 <= l /\ l <= r /\ r < n

\* the arguments of the call satisfy the documented precondition
ValidCall(c) ==
    IF c.name \in {"__init__", "build"} THEN TRUE
    ELSE IF c.name = "update" THEN ValidIndex(c.l)
    ELSE ValidRange(c.l, c.r)

\* the exception the last call ended with
Raised == IF err THEN "IndexError" ELSE "none"

InitArgs == InitWith(MaxNArgs, Values, ArgOps)

\* st.update(idx, val), any idx
UpdateAny ==
    /\ CanCall("SegmentTree")
    /\ \E idx \in ArgIndices, val \in Deltas :
         Finish(update(Enter(tree, lazy), n, idx, val),
                Call("update", idx, idx, val), "None",
                IF ValidIndex(idx) THEN [ref EXCEPT ![idx] = val] ELSE ref)

\* st.query(l, r), any l and r
QueryAny ==
    /\ CanCall("SegmentTree")
    /\ \E l \in ArgIndices, r \in ArgIndices :
         LET q == query(Enter(tree, lazy), n, l, r)
         IN  Finish(q.s, Call("query", l, r, 0), q.ret, ref)

\* lst.range_update(l, r, val), any l and r
RangeUpdateAny ==
    /\ CanCall("LazySegmentTree")
    /\ \E l \in ArgIndices, r \in ArgIndices, val \in Deltas :
         Finish(range_update(Enter(tree, lazy), n, l, r, val),
                Call("range_update", l, r, val), "None",
                IF ValidRange(l, r)
                THEN [i \in 0 .. (n - 1) |->
                        IF l <= i /\ i <= r THEN ref[i] + val ELSE ref[i]]
                ELSE ref)

\* lst.range_query(l, r), any l and r
RangeQueryAny ==
    /\ CanCall("LazySegmentTree")
    /\ \E l \in ArgIndices, r \in ArgIndices :
         LET q == range_query(Enter(tree, lazy), n, l, r)
         IN  Finish(q.s, Call("range_query", l, r, 0), q.ret, ref)

\* nodes build is called on: the root, its two children, and -1, which as
\* a list index names the last slot
BuildNodes == {0 - 1, 0, 1, 2}

\* st.build(arr, node, start, end) / lst.build(arr, node, start, end) on the
\* constructed object, with a list arr of n elements and 0 <= start <= end
\* < n: build is a public method and writes tree[node] and the nodes below
\* it, whatever range node stood for before; it does not touch lazy.  The
\* caller's list becomes what the point queries now return.
BuildAny ==
    /\ \E c \in Classes : CanCall(c)
    /\ \E arr \in Lists(n, Values), node \in BuildNodes :
         \E start \in Indices : \E end \in start .. (n - 1) :
           LET s == build(Enter(tree, lazy), arr, node, start, end)
           IN  Finish(s, Call("build", start, end, node), "None",
                      PointValues(cls, n, s.tree, s.lazy))

NextArgs ==
    \/ UpdateAny
    \/ QueryAny
    \/ RangeUpdateAny
    \/ RangeQueryAny
    \/ BuildAny

SpecArgs == InitArgs /\ [][NextArgs]_vars

\* ----------------------------------------------------------------- C11
\* C11: update, query, range_update and range_query called with a negative
\* index, an index >= n or left > right fail with InvalidRange and leave the
\* tree unchanged.
C11_InvalidArgsRejected ==
    [][ ~ValidCall(op') =>
          /\ Raised' = "InvalidRange"
          /\ tree' = tree
          /\ lazy' = lazy
      ]_vars

\* ------------------------------------- construction from the empty list
\* SegmentTree([]) / LazySegmentTree([]): n = 0, the lists are empty and
\* __init__ calls build(arr, 0, 0, -1).  start # end, so build computes
\* mid = (0 + -1) // 2 = -1 and first calls build(arr, 2 * node + 1, 0, -1):
\* the innermost call always has the range of the first one, and no list
\* slot is accessed before a call returns.  ctor holds the range of the
\* innermost call, the number of nested build calls (builds) and the number
\* of frames on the interpreter's stack (depth): those of the caller, the
\* frame of __init__ and the build frames.

\* frames on the stack where the constructor is called: 1 at the top level
\* of a script (<module>), more inside functions
CallerFrames == {1, 2, 5}

InitEmpty ==
    \E c \in Classes, outer \in CallerFrames :
        /\ cls = c
        /\ n = 0
        /\ tree = Zeros(Size(0))
        /\ lazy = IF c = "SegmentTree" THEN << >> ELSE Zeros(Size(0))
        /\ op = Call("__init__", 0, 0 - 1, 0)
        /\ ret = "None"
        /\ touched = {}
        /\ written = {}
        /\ trace = << >>
        /\ err = FALSE
        /\ ref = << >>
        /\ before = << >>
        /\ budget = 0
        /\ ctor = [pc |-> "build", start |-> 0, end |-> 0 - 1,
                   depth |-> outer + 2, builds |-> 1, exc |-> "none"]
        /\ fen = NoObject
        /\ uf = NoObject
        /\ ts = NoObject
        /\ topo = NoObject
        /\ dij = NoObject

\* build, start # end: self.build(arr, 2 * node + 1, start, mid)
BuildDescend ==
    /\ ctor.pc = "build"
    /\ ctor.start # ctor.end
    /\ ctor.depth + 1 < RecursionLimit
    /\ ctor' = [ctor EXCEPT !.end = (ctor.start + ctor.end) \div 2,
                            !.depth = @ + 1, !.builds = @ + 1]
    /\ UNCHANGED <<cls, n, tree, lazy, op, ret, touched, written, trace, err,
                   ref, before, budget, fen, uf, ts, topo, dij>>

\* the interpreter refuses the call that would make the stack RecursionLimit
\* frames deep
RaiseRecursionError ==
    /\ ctor.pc = "build"
    /\ ctor.start # ctor.end
    /\ ctor.depth + 1 = RecursionLimit
    /\ ctor' = [ctor EXCEPT !.pc = "raised", !.exc = "RecursionError"]
    /\ UNCHANGED <<cls, n, tree, lazy, op, ret, touched, written, trace, err,
                   ref, before, budget, fen, uf, ts, topo, dij>>

NextEmpty == BuildDescend \/ RaiseRecursionError

SpecEmpty == InitEmpty /\ [][NextEmpty]_vars

\* ----------------------------------------------------------------- C12
\* C12: constructing either tree from an empty list fails with InvalidSize:
\* build does not recurse on the empty range, and the error the constructor
\* ends with is InvalidSize.
C12_EmptyInputInvalidSize ==
    n = 0 =>
        /\ ctor.builds <= 1
        /\ ctor.pc = "raised" => ctor.exc = "InvalidSize"

\* ----------------------------------------------------------------- C13
\* C13: SegmentTree.update is an absolute set: update(index, x) followed by
\* update(index, y) leaves the whole tree list identical to a single
\* update(index, y) (so update(index, x) twice equals once), and the list
\* after an update is the one built from the current elements; range_update
\* of the lazy tree accumulates instead: it adds its value to what each
\* element of the range was before the call.
C13_UpdateIsAbsoluteSet ==
    /\ IsEager =>
          /\ \A idx \in Indices, x \in Deltas, y \in Deltas :
                update(update(Enter(tree, lazy), n, idx, x), n, idx, y).tree
                  = update(Enter(tree, lazy), n, idx, y).tree
          /\ op.name = "update" => tree = SegmentTreeInit(ref).tree
    /\ (IsLazy /\ op.name = "range_update") =>
          \A i \in op.l .. op.r : Now(i, i) = before[i] + op.val

\* the second of two update calls on one index, with a different value
C13_Witness ==
    /\ IsEager
    /\ n = 3
    /\ op.name = "update"
    /\ budget = MaxOps - 2
    /\ before[op.l] \notin Values
    /\ op.val # before[op.l]
    /\ Now(op.l, op.l) = op.val
    /\ tree = SegmentTreeInit(ref).tree

\* ============================================ templates/fenwick_tree.py
\* The methods of FenwickTree are named ft_..., those of
\* FenwickTreeRangeUpdate frut_..., after the objects of the example script.
RECURSIVE LowBit(_)
\* idx & (-idx): the lowest set bit of idx (0 for 0)
LowBit(i) ==
    IF i <= 0 THEN 0
    ELSE IF i % 2 = 1 THEN 1
    ELSE 2 * LowBit(i \div 2)

RECURSIVE UpdateLoop(_, _, _, _)
\* while idx <= self.n: tree[idx] += delta; idx += idx & (-idx)
UpdateLoop(t, k, i, delta) ==
    IF i <= k
    THEN UpdateLoop([t EXCEPT ![i] = @ + delta], k, i + LowBit(i), delta)
    ELSE t

RECURSIVE QueryLoop(_, _, _)
\* while idx > 0: result += tree[idx]; idx -= idx & (-idx)
QueryLoop(t, i, result) ==
    IF i > 0
    THEN QueryLoop(t, i - LowBit(i), result + t[i])
    ELSE result

\* FenwickTree.update(idx, delta): the new self.tree
ft_update(t, k, idx, delta) == UpdateLoop(t, k, idx + 1, delta)

\* FenwickTree.query(idx)
ft_query(t, idx) == QueryLoop(t, idx + 1, 0)

ft_range_query_samebound(t, l, r) ==
    IF l = 0 THEN ft_query(t, r) ELSE ft_query(t, r) - ft_query(t, l)

\* FenwickTree.range_query(l, r)
ft_range_query(t, l, r) ==
    IF l = 0 THEN ft_query(t, r) ELSE ft_query(t, r) - ft_query(t, l - 1)

\* FenwickTree.get(idx)
ft_get(t, idx) == ft_range_query(t, idx, idx)

\* FenwickTreeRangeUpdate._update_helper(tree, idx, val): the new tree
frut_update_helper(t, k, idx, val) == UpdateLoop(t, k, idx + 1, val)

\* FenwickTreeRangeUpdate._query_helper(tree, idx)
frut_query_helper(t, idx) == QueryLoop(t, idx + 1, 0)

\* FenwickTreeRangeUpdate.range_update(l, r, val): the new tree1 and tree2
frut_range_update(t1, t2, k, l, r, val) ==
    LET a == frut_update_helper(t1, k, l, val)
        b == frut_update_helper(a, k, r + 1, 0 - val)
        c == frut_update_helper(t2, k, l, val * l)
        d == frut_update_helper(c, k, r + 1, (0 - val) * (r + 1))
    IN  [tree1 |-> b, tree2 |-> d]

\* FenwickTreeRangeUpdate.point_query(idx)
frut_point_query(t1, t2, idx) ==
    frut_query_helper(t1, idx) * (idx + 1) - frut_query_helper(t2, idx)

FenClasses == {"FenwickTree", "FenwickTreeRangeUpdate"}

\* ft = FenwickTree(k) / frut = FenwickTreeRangeUpdate(k): [0] * (n + 1);
\* ref is the list of elements the caller has in mind, all zero at first
FenObject(c, k) ==
    [cls |-> c, n |-> k,
     tree |-> IF c = "FenwickTree" THEN Zeros(k + 1) ELSE << >>,
     tree1 |-> IF c = "FenwickTree" THEN << >> ELSE Zeros(k + 1),
     tree2 |-> IF c = "FenwickTree" THEN << >> ELSE Zeros(k + 1),
     ref |-> Zeros(k),
     op |-> Call("__init__", 0, k - 1, 0),
     ret |-> "None",
     budget |-> FenOps]

\* no segment tree exists in this script
SegIdle ==
    /\ cls = "none"
    /\ n = 0
    /\ tree = << >>
    /\ lazy = << >>
    /\ op = Call("none", 0, 0, 0)
    /\ ret = "None"
    /\ touched = {}
    /\ written = {}
    /\ trace = << >>
    /\ err = FALSE
    /\ ref = << >>
    /\ before = << >>
    /\ budget = 0
    /\ ctor = CtorDone

InitFenwick ==
    /\ SegIdle
    /\ \E c \in FenClasses, k \in 1 .. MaxFenN : fen = FenObject(c, k)
    /\ uf = NoObject
    /\ ts = NoObject
    /\ topo = NoObject
    /\ dij = NoObject

FenCan(c) == fen.cls = c /\ fen.budget > 0
FenIndices == 0 .. (fen.n - 1)
FenRanges == {lr \in FenIndices \X FenIndices : lr[1] <= lr[2]}

FenDone(obj, call, result) ==
    /\ fen' = [obj EXCEPT !.op = call, !.ret = result, !.budget = @ - 1]
    /\ UNCHANGED <<segVars, uf, ts, topo, dij>>

\* ft.update(idx, delta)
FtUpdate ==
    /\ FenCan("FenwickTree")
    /\ \E idx \in FenIndices, delta \in Deltas :
         FenDone([fen EXCEPT !.tree = ft_update(fen.tree, fen.n, idx, delta),
                             !.ref[idx] = @ + delta],
                 Call("update", idx, idx, delta), "None")

\* ft.query(idx)
FtQuery ==
    /\ FenCan("FenwickTree")
    /\ \E idx \in FenIndices :
         FenDone(fen, Call("query", 0, idx, 0), ft_query(fen.tree, idx))

\* ft.range_query(l, r)
FtRangeQuery ==
    /\ FenCan("FenwickTree")
    /\ \E lr \in FenRanges :
         FenDone(fen, Call("range_query", lr[1], lr[2], 0),
                 ft_range_query(fen.tree, lr[1], lr[2]))

\* ft.get(idx)
FtGet ==
    /\ FenCan("FenwickTree")
    /\ \E idx \in FenIndices :
         FenDone(fen, Call("get", idx, idx, 0), ft_get(fen.tree, idx))

\* frut.range_update(l, r, val)
FrutRangeUpdate ==
    /\ FenCan("FenwickTreeRangeUpdate")
    /\ \E lr \in FenRanges, val \in Deltas :
         LET new == frut_range_update(fen.tree1, fen.tree2, fen.n,
                                      lr[1], lr[2], val)
         IN  FenDone([fen EXCEPT
                        !.tree1 = new.tree1,
                        !.tree2 = new.tree2,
                        !.ref = [i \in FenIndices |->
                                   IF lr[1] <= i /\ i <= lr[2]
                                   THEN fen.ref[i] + val ELSE fen.ref[i]]],
                     Call("range_update", lr[1], lr[2], val), "None")

\* frut.point_query(idx)
FrutPointQuery ==
    /\ FenCan("FenwickTreeRangeUpdate")
    /\ \E idx \in FenIndices :
         FenDone(fen, Call("point_query", idx, idx, 0),
                 frut_point_query(fen.tree1, fen.tree2, idx))

NextFenwick ==
    \/ FtUpdate
    \/ FtQuery
    \/ FtRangeQuery
    \/ FtGet
    \/ FrutRangeUpdate
    \/ FrutPointQuery

SpecFenwick == InitFenwick /\ [][NextFenwick]_vars

\* ----------------------------------------------------------------- C14
\* C14: after any sequence of range_update calls on a FenwickTreeRangeUpdate,
\* point_query(idx) returns the value at the single index idx: the sum of val
\* over the updates whose range contains idx.
C14_PointQueryIsElement ==
    fen.cls = "FenwickTreeRangeUpdate" =>
        /\ \A idx \in FenIndices :
              frut_point_query(fen.tree1, fen.tree2, idx) = fen.ref[idx]
        /\ fen.op.name = "point_query" => fen.ret = fen.ref[fen.op.l]

\* ----------------------------------------------------------------- C15
\* C15: after any sequence of update calls on a FenwickTree, query(idx) is
\* the sum of the deltas added at indices 0..idx, range_query(l, r) the sum
\* of those added at l..r (l = 0 included) and get(idx) the sum of those
\* added at idx.
C15_FenwickSums ==
    fen.cls = "FenwickTree" =>
        /\ \A idx \in FenIndices :
              /\ ft_query(fen.tree, idx) = SumRange(fen.ref, 0, idx)
              /\ ft_get(fen.tree, idx) = fen.ref[idx]
        /\ \A lr \in FenRanges :
              ft_range_query(fen.tree, lr[1], lr[2])
                = SumRange(fen.ref, lr[1], lr[2])
        /\ fen.op.name = "query" => fen.ret = SumRange(fen.ref, 0, fen.op.r)
        /\ fen.op.name = "range_query" =>
              fen.ret = SumRange(fen.ref, fen.op.l, fen.op.r)
        /\ fen.op.name = "get" => fen.ret = fen.ref[fen.op.l]

\* a range_query with l > 0 over elements that updates made unequal
C15_Witness ==
    /\ fen.cls = "FenwickTree"
    /\ fen.n = MaxFenN
    /\ fen.op.name = "range_query"
    /\ fen.op.l > 0
    /\ fen.op.l < fen.op.r
    /\ fen.ref[fen.op.l - 1] # 0
    /\ fen.ref[fen.op.r] # 0
    /\ fen.ret = SumRange(fen.ref, fen.op.l, fen.op.r)

\* ============================================== templates/union_find.py
\* The methods of UnionFind are named uf_..., those of WeightedUnionFind
\* wuf_..., after the objects of the example script.  A method that writes
\* the object returns the object with the field ret added.
\* weights passed to WeightedUnionFind.union
Weights == {-1, 2}

\* list(range(k))
RangeList(k) == [i \in 0 .. (k - 1) |-> i]

\* [v] * k
Repeat(v, k) == [i \in 0 .. (k - 1) |-> v]

\* a returned int v is <<v>>, a returned None is << >>
Some(v) == <<v>>
None == << >>

RECURSIVE uf_find(_, _)

\* find whose compression, when it moves x to a new parent, stores x itself
\* instead of the root
uf_find_detach(o, x) ==
    IF o.parent[x] # x
    THEN LET r == uf_find(o, o.parent[x])
             b == [r EXCEPT !.parent[x] =
                               IF r.ret = o.parent[x] THEN r.ret ELSE x]
         IN  [b EXCEPT !.ret = b.parent[x]]
    ELSE [o EXCEPT !.ret = o.parent[x]]

\* UnionFind.find(x)
uf_find(o, x) ==
    IF o.parent[x] # x
    THEN LET r == uf_find(o, o.parent[x])
             c == [r EXCEPT !.parent[x] = r.ret]
         IN  [c EXCEPT !.ret = c.parent[x]]
    ELSE [o EXCEPT !.ret = o.parent[x]]

\* union adding one to the kept root's size, whatever the absorbed size
uf_union_sizeone(o, x, y) ==
    LET fx == uf_find(o, x)
        fy == uf_find(fx, y)
        root_x == fx.ret
        root_y == fy.ret
    IN  IF root_x = root_y THEN [fy EXCEPT !.ret = FALSE]
        ELSE IF fy.rank[root_x] < fy.rank[root_y]
        THEN [fy EXCEPT !.parent[root_x] = root_y,
                        !.size[root_y] = @ + 1,
                        !.ret = TRUE]
        ELSE IF fy.rank[root_x] > fy.rank[root_y]
        THEN [fy EXCEPT !.parent[root_y] = root_x,
                        !.size[root_x] = @ + 1,
                        !.ret = TRUE]
        ELSE [fy EXCEPT !.parent[root_y] = root_x,
                        !.size[root_x] = @ + 1,
                        !.rank[root_x] = @ + 1,
                        !.ret = TRUE]

\* UnionFind.union(x, y)
uf_union(o, x, y) ==
    LET fx == uf_find(o, x)
        fy == uf_find(fx, y)
        root_x == fx.ret
        root_y == fy.ret
    IN  IF root_x = root_y THEN [fy EXCEPT !.ret = FALSE]
        ELSE IF fy.rank[root_x] < fy.rank[root_y]
        THEN [fy EXCEPT !.parent[root_x] = root_y,
                        !.size[root_y] = @ + fy.size[root_x],
                        !.ret = TRUE]
        ELSE IF fy.rank[root_x] > fy.rank[root_y]
        THEN [fy EXCEPT !.parent[root_y] = root_x,
                        !.size[root_x] = @ + fy.size[root_y],
                        !.ret = TRUE]
        ELSE [fy EXCEPT !.parent[root_y] = root_x,
                        !.size[root_x] = @ + fy.size[root_y],
                        !.rank[root_x] = @ + 1,
                        !.ret = TRUE]

\* UnionFind.connected(x, y)
uf_connected(o, x, y) ==
    LET fx == uf_find(o, x)
        fy == uf_find(fx, y)
    IN  [fy EXCEPT !.ret = (fx.ret = fy.ret)]

\* UnionFind.get_size(x)
uf_get_size(o, x) ==
    LET fx == uf_find(o, x)
    IN  [fx EXCEPT !.ret = fx.size[fx.ret]]

RECURSIVE FindEach(_, _, _)
\* set(self.find(i) for i in range(len(self.parent))), from element i on,
\* roots being the results so far; every find compresses its path
FindEach(o, i, roots) ==
    IF i >= o.n THEN [o |-> o, roots |-> roots]
    ELSE LET f == uf_find(o, i)
         IN  FindEach(f, i + 1, roots \cup {f.ret})

\* UnionFind.get_num_components()
uf_get_num_components(o) ==
    LET e == FindEach(o, 0, {})
    IN  [e.o EXCEPT !.ret = Cardinality(e.roots)]

RECURSIVE wuf_find(_, _)

wuf_find_noaccumulate(o, x) ==
    IF o.parent[x] # x
    THEN LET r == wuf_find(o, o.parent[x])
             b == [r EXCEPT !.parent[x] = r.ret]
         IN  [b EXCEPT !.ret = b.parent[x]]
    ELSE [o EXCEPT !.ret = o.parent[x]]

\* WeightedUnionFind.find(x)
wuf_find(o, x) ==
    IF o.parent[x] # x
    THEN LET r == wuf_find(o, o.parent[x])
             a == [r EXCEPT !.potential[x] = @ + r.potential[r.parent[x]]]
             b == [a EXCEPT !.parent[x] = r.ret]
         IN  [b EXCEPT !.ret = b.parent[x]]
    ELSE [o EXCEPT !.ret = o.parent[x]]

\* WeightedUnionFind.union(x, y, weight)
wuf_union(o, x, y, weight) ==
    LET fx == wuf_find(o, x)
        fy == wuf_find(fx, y)
        root_x == fx.ret
        root_y == fy.ret
    IN  IF root_x = root_y THEN [fy EXCEPT !.ret = FALSE]
        ELSE [fy EXCEPT
                !.potential[root_y] = weight + fy.potential[x] - fy.potential[y],
                !.parent[root_y] = root_x,
                !.ret = TRUE]

\* WeightedUnionFind.get_difference(x, y)
wuf_get_difference(o, x, y) ==
    LET fx == wuf_find(o, x)
        fy == wuf_find(fx, y)
    IN  IF fx.ret # fy.ret THEN [fy EXCEPT !.ret = None]
        ELSE [fy EXCEPT !.ret = Some(fy.potential[y] - fy.potential[x])]

UfClasses == {"UnionFind", "WeightedUnionFind"}
\* numbers of elements of a UnionFind in SpecUnion: with four elements union
\* by rank can leave a path of two links for find to compress
UfSizes == 1 .. 4

\* uf = UnionFind(k) / wuf = WeightedUnionFind(k).  pairs are the pairs
\* passed to union so far, was the pairs passed before the last call, prev
\* the parent list before the last call, value
\* an assignment of numbers to the elements that satisfies every constraint
\* a True-returning union recorded.
UfObject(c, k) ==
    [cls |-> c, n |-> k,
     parent |-> RangeList(k),
     rank |-> IF c = "UnionFind" THEN Repeat(0, k) ELSE << >>,
     size |-> IF c = "UnionFind" THEN Repeat(1, k) ELSE << >>,
     potential |-> IF c = "UnionFind" THEN << >> ELSE Repeat(0, k),
     ret |-> "None",
     op |-> Call("__init__", 0, k - 1, 0),
     pairs |-> {},
     was |-> {},
     prev |-> RangeList(k),
     value |-> Repeat(0, k),
     budget |-> IF c = "UnionFind" THEN UfOps ELSE WufOps]

InitUnion ==
    /\ SegIdle
    /\ fen = NoObject
    /\ \/ \E k \in UfSizes : uf = UfObject("UnionFind", k)
       \/ \E k \in 1 .. MaxWufN : uf = UfObject("WeightedUnionFind", k)
    /\ ts = NoObject
    /\ topo = NoObject
    /\ dij = NoObject

UfCan(c) == uf.cls = c /\ uf.budget > 0
UfElems == 0 .. (uf.n - 1)

RECURSIVE Closure(_, _)
\* the elements linked to one of S by a chain of the pairs E
Closure(S, E) ==
    LET T == S \cup {v \in UNION E : \E e \in E : v \in e /\ e \cap S # {}}
    IN  IF T = S THEN S ELSE Closure(T, E)

\* the component of a under the pairs E
Component(a, E) == Closure({a}, E)

UfDone(o, call, newPairs, newValue) ==
    /\ uf' = [o EXCEPT !.op = call, !.pairs = newPairs, !.was = uf.pairs,
                       !.prev = uf.parent, !.value = newValue,
                       !.budget = @ - 1]
    /\ UNCHANGED <<segVars, fen, ts, topo, dij>>

\* uf.union(x, y)
UfUnion ==
    /\ UfCan("UnionFind")
    /\ \E x \in UfElems, y \in UfElems :
         UfDone(uf_union(uf, x, y), Call("union", x, y, 0),
                uf.pairs \cup {{x, y}}, uf.value)

\* uf.find(x)
UfFind ==
    /\ UfCan("UnionFind")
    /\ \E x \in UfElems :
         UfDone(uf_find(uf, x), Call("find", x, x, 0), uf.pairs, uf.value)

\* uf.connected(x, y)
UfConnected ==
    /\ UfCan("UnionFind")
    /\ \E x \in UfElems, y \in UfElems :
         UfDone(uf_connected(uf, x, y), Call("connected", x, y, 0),
                uf.pairs, uf.value)

\* uf.get_size(x)
UfGetSize ==
    /\ UfCan("UnionFind")
    /\ \E x \in UfElems :
         UfDone(uf_get_size(uf, x), Call("get_size", x, x, 0),
                uf.pairs, uf.value)

\* uf.get_num_components()
UfGetNumComponents ==
    /\ UfCan("UnionFind")
    /\ UfDone(uf_get_num_components(uf),
              Call("get_num_components", 0, uf.n - 1, 0), uf.pairs, uf.value)

\* wuf.union(x, y, weight): a True-returning call moves the values of y's
\* component so that value[y] - value[x] = weight
WufUnion ==
    /\ UfCan("WeightedUnionFind")
    /\ \E x \in UfElems, y \in UfElems, w \in Weights :
         LET o == wuf_union(uf, x, y, w)
             shift == uf.value[x] + w - uf.value[y]
             moved == Component(y, uf.pairs)
         IN  UfDone(o, Call("union", x, y, w),
                    IF o.ret THEN uf.pairs \cup {{x, y}} ELSE uf.pairs,
                    IF o.ret
                    THEN [v \in UfElems |->
                            IF v \in moved THEN uf.value[v] + shift
                            ELSE uf.value[v]]
                    ELSE uf.value)

\* wuf.find(x)
WufFind ==
    /\ UfCan("WeightedUnionFind")
    /\ \E x \in UfElems :
         UfDone(wuf_find(uf, x), Call("find", x, x, 0), uf.pairs, uf.value)

\* wuf.get_difference(x, y)
WufGetDifference ==
    /\ UfCan("WeightedUnionFind")
    /\ \E x \in UfElems, y \in UfElems :
         UfDone(wuf_get_difference(uf, x, y), Call("get_difference", x, y, 0),
                uf.pairs, uf.value)

NextUnion ==
    \/ UfUnion
    \/ UfFind
    \/ UfConnected
    \/ UfGetSize
    \/ UfGetNumComponents
    \/ WufUnion
    \/ WufFind
    \/ WufGetDifference

SpecUnion == InitUnion /\ [][NextUnion]_vars

\* what uf.connected(a, b) would return on the object o
Conn(o, a, b) == uf_connected(o, a, b).ret

\* ----------------------------------------------------------------- C16
\* C16: union(x, y) returns True exactly when x and y were in different
\* components before the call, and a False return changes no component;
\* connected(a, b) holds exactly when a and b are linked by a chain of the
\* pairs passed to union so far; find, connected, get_size and
\* get_num_components, which compress paths, change no component, and
\* get_num_components returns the number of components.
C16_UnionFindPartition ==
    uf.cls = "UnionFind" =>
        /\ \A a \in UfElems, b \in UfElems :
              Conn(uf, a, b) <=> (b \in Component(a, uf.pairs))
        /\ uf.op.name = "union" =>
              /\ uf.ret <=> (uf.op.r \notin Component(uf.op.l, uf.was))
              /\ (~uf.ret) =>
                    \A a \in UfElems, b \in UfElems :
                        Conn(uf, a, b) <=> (b \in Component(a, uf.was))
        /\ uf.op.name \in {"find", "connected", "get_size",
                           "get_num_components"} =>
              \A a \in UfElems, b \in UfElems :
                  Conn(uf, a, b) <=> (b \in Component(a, uf.was))
        /\ uf.op.name = "connected" =>
              (uf.ret <=> (uf.op.r \in Component(uf.op.l, uf.was)))
        /\ uf.op.name = "get_num_components" =>
              uf.ret = Cardinality({Component(a, uf.was) : a \in UfElems})

\* a find or get_num_components that compressed a path of two links, on an
\* object where some union of two distinct elements would return False
C16_Witness ==
    /\ uf.cls = "UnionFind"
    /\ uf.op.name \in {"find", "get_num_components"}
    /\ uf.parent # uf.prev
    /\ \E a \in UfElems, b \in UfElems :
          /\ a # b
          /\ {a, b} \notin uf.pairs
          /\ uf_union(uf, a, b).ret = FALSE

\* ----------------------------------------------------------------- C17
\* C17: get_size(x) is the number of elements of x's component, and size of
\* every current root is the cardinality of its component, whichever root
\* union by rank kept.
C17_SizeIsCardinality ==
    uf.cls = "UnionFind" =>
        /\ \A x \in UfElems :
              /\ uf_get_size(uf, x).ret = Cardinality(Component(x, uf.pairs))
              /\ uf.parent[x] = x =>
                    uf.size[x] = Cardinality(Component(x, uf.pairs))
        /\ uf.op.name = "get_size" =>
              uf.ret = Cardinality(Component(uf.op.l, uf.pairs))

\* union(x, y) of two components of two elements each, one of them holding
\* a path of one link below its root: the kept root's size went from 2 to 4
C17_Witness ==
    /\ uf.cls = "UnionFind"
    /\ uf.op.name = "union"
    /\ uf.ret = TRUE
    /\ Cardinality(Component(uf.op.l, uf.was)) = 2
    /\ Cardinality(Component(uf.op.r, uf.was)) = 2
    /\ \E x \in UfElems : uf.parent[x] = x /\ uf.size[x] = 4
    /\ uf_get_size(uf, uf.op.r).ret = 4

\* ----------------------------------------------------------------- C18
\* C18: after any unions of a WeightedUnionFind, get_difference(a, b) is
\* None when a and b are in different components and otherwise the
\* difference value[b] - value[a] that the True-returning unions imply;
\* right after a True-returning union(x, y, w), get_difference(x, y) = w.
C18_WeightedDifferences ==
    uf.cls = "WeightedUnionFind" =>
        /\ \A a \in UfElems, b \in UfElems :
              wuf_get_difference(uf, a, b).ret
                = IF b \in Component(a, uf.pairs)
                  THEN Some(uf.value[b] - uf.value[a])
                  ELSE None
        /\ (uf.op.name = "union" /\ uf.ret = TRUE) =>
              wuf_get_difference(uf, uf.op.l, uf.op.r).ret = Some(uf.op.val)
        /\ uf.op.name = "get_difference" =>
              uf.ret = IF uf.op.r \in Component(uf.op.l, uf.pairs)
                       THEN Some(uf.value[uf.op.r] - uf.value[uf.op.l])
                       ELSE None

\* a second union extended a chain: the difference between its y and an
\* element linked to x earlier is the sum of two weights
C18_Witness ==
    /\ uf.cls = "WeightedUnionFind"
    /\ uf.op.name = "union"
    /\ uf.ret = TRUE
    /\ \E a \in UfElems :
          /\ a \notin {uf.op.l, uf.op.r}
          /\ a \in Component(uf.op.l, uf.pairs)
          /\ uf.value[uf.op.r] - uf.value[a] # uf.op.val
          /\ wuf_get_difference(uf, a, uf.op.r).ret
               = Some(uf.value[uf.op.r] - uf.value[a])

\* =====================================================================
\* problems/leetcode/easy/arrays/two_sum: solution.py (hash map) and
\* solution_optimized.py (sort and two pointers).  A result list [i, j] is
\* the tuple <<i, j>>, the empty list [] the tuple << >>.
\* =====================================================================

\* elements of nums
TsValues == {-1, 1, 2, 3}
\* targets: every sum of two elements, and one no pair reaches
Targets == {a + b : a \in TsValues, b \in TsValues} \cup {9}

\* len(nums)
len(nums) == Cardinality(DOMAIN nums)

\* seen[num] = i
Store(seen, num, i) ==
    [v \in DOMAIN seen \cup {num} |-> IF v = num THEN i ELSE seen[v]]

RECURSIVE two_sum_storefirst_loop(_, _, _, _)
\* the loop of two_sum storing the current number before it looks up the
\* complement
two_sum_storefirst_loop(nums, target, i, seen) ==
    IF i >= len(nums) THEN << >>
    ELSE LET num == nums[i]
             complement == target - num
             stored == Store(seen, num, i)
         IN  IF complement \in DOMAIN stored
             THEN <<stored[complement], i>>
             ELSE two_sum_storefirst_loop(nums, target, i + 1, stored)

RECURSIVE two_sum_loop(_, _, _, _)
\* for i, num in enumerate(nums), from position i on with the map seen
two_sum_loop(nums, target, i, seen) ==
    IF i >= len(nums) THEN << >>
    ELSE LET num == nums[i]
             complement == target - num
         IN  IF complement \in DOMAIN seen
             THEN <<seen[complement], i>>
             ELSE two_sum_loop(nums, target, i + 1, Store(seen, num, i))

\* two_sum(nums, target); seen = {} is the function with the empty domain
two_sum(nums, target) == two_sum_loop(nums, target, 0, << >>)

\* (a, i) < (b, j) as Python orders tuples
TupleLess(p, q) == p[1] < q[1] \/ (p[1] = q[1] /\ p[2] < q[2])

\* indexed_nums after indexed_nums.sort(): the pairs (num, i) in ascending
\* tuple order, as a list over 0 .. len-1
sorted_indexed_nums(nums) ==
    LET pairs == {<<nums[i], i>> : i \in DOMAIN nums}
    IN  [k \in 0 .. (len(nums) - 1) |->
            CHOOSE p \in pairs :
                Cardinality({q \in pairs : TupleLess(q, p)}) = k]

RECURSIVE two_pointers_loop(_, _, _, _)
\* while left < right
two_pointers_loop(indexed_nums, target, left, right) ==
    IF ~(left < right) THEN << >>
    ELSE LET current_sum == indexed_nums[left][1] + indexed_nums[right][1]
         IN  IF current_sum = target
             THEN <<indexed_nums[left][2], indexed_nums[right][2]>>
             ELSE IF current_sum < target
             THEN two_pointers_loop(indexed_nums, target, left + 1, right)
             ELSE two_pointers_loop(indexed_nums, target, left, right - 1)

\* two_sum_two_pointers(nums, target)
two_sum_two_pointers(nums, target) ==
    two_pointers_loop(sorted_indexed_nums(nums), target, 0, len(nums) - 1)

\* --------------------------------------------- one call of either function
\* ts holds the arguments of the call, the function called and what it
\* returned.
InitTwoSum ==
    /\ SegIdle
    /\ fen = NoObject
    /\ uf = NoObject
    /\ topo = NoObject
    /\ dij = NoObject
    /\ \E k \in 0 .. MaxTsLen :
         \E nums \in Lists(k, TsValues), target \in Targets :
            ts = [cls |-> "two_sum", nums |-> nums, target |-> target,
                  op |-> "none", ret |-> << >>]

TsCan == ts.cls = "two_sum" /\ ts.op = "none"

\* two_sum(nums, target)
TwoSum ==
    /\ TsCan
    /\ ts' = [ts EXCEPT !.op = "two_sum",
                        !.ret = two_sum(ts.nums, ts.target)]
    /\ UNCHANGED <<segVars, fen, uf, topo, dij>>

\* two_sum_two_pointers(nums, target)
TwoSumTwoPointers ==
    /\ TsCan
    /\ ts' = [ts EXCEPT !.op = "two_sum_two_pointers",
                        !.ret = two_sum_two_pointers(ts.nums, ts.target)]
    /\ UNCHANGED <<segVars, fen, uf, topo, dij>>

NextTwoSum ==
    \/ TwoSum
    \/ TwoSumTwoPointers

SpecTwoSum == InitTwoSum /\ [][NextTwoSum]_vars

\* the pairs of distinct positions i < j with nums[i] + nums[j] == target
SolutionPairs ==
    {p \in (DOMAIN ts.nums) \X (DOMAIN ts.nums) :
        p[1] < p[2] /\ ts.nums[p[1]] + ts.nums[p[2]] = ts.target}

\* ----------------------------------------------------------------- C19
\* C19: whenever some pair of distinct positions i < j has
\* nums[i] + nums[j] == target, two_sum returns a list [i, j] with i < j and
\* nums[i] + nums[j] == target; when there is no such pair it returns [].
C19_TwoSumFindsPair ==
    (ts.cls = "two_sum" /\ ts.op = "two_sum") =>
        IF SolutionPairs # {}
        THEN /\ Len(ts.ret) = 2
             /\ <<ts.ret[1], ts.ret[2]>> \in SolutionPairs
        ELSE ts.ret = << >>

\* two_sum found the pair of two equal elements whose double is the target,
\* past an earlier element that is half the target on its own in no pair
C19_Witness ==
    /\ ts.cls = "two_sum"
    /\ ts.op = "two_sum"
    /\ len(ts.nums) = 3
    /\ ts.nums[1] = ts.nums[2]
    /\ ts.nums[0] # ts.nums[1]
    /\ ts.target = 2 * ts.nums[1]
    /\ ts.ret = <<1, 2>>

\* ----------------------------------------------------------------- C20
\* C20: for every input with exactly one solution pair,
\* two_sum_two_pointers returns [i, j] with i < j and
\* nums[i] + nums[j] == target, the form two_sum returns; it returns []
\* when there is no pair.
C20_TwoPointersSameForm ==
    (ts.cls = "two_sum" /\ ts.op = "two_sum_two_pointers") =>
        /\ Cardinality(SolutionPairs) = 1 =>
              /\ Len(ts.ret) = 2
              /\ <<ts.ret[1], ts.ret[2]>> \in SolutionPairs
              /\ ts.ret = two_sum(ts.nums, ts.target)
        /\ SolutionPairs = {} => ts.ret = << >>

\* =====================================================================
\* templates/topological_sort.py: topological_sort_kahn.  edges is a Python
\* list of pairs (u, v), a function over 0 .. len-1; graph[u] and the
\* returned list are tuples in the order the code appends to them.
\* =====================================================================

RECURSIVE BuildGraph(_, _, _)
\* for u, v in edges: graph[u].append(v); in_degree[v] += 1, from edge k on
BuildGraph(g, edges, k) ==
    IF k >= len(edges) THEN g
    ELSE LET u == edges[k][1]
             v == edges[k][2]
         IN  BuildGraph([graph |-> [g.graph EXCEPT ![u] = Append(@, v)],
                         in_degree |-> [g.in_degree EXCEPT ![v] = @ + 1]],
                        edges, k + 1)

RECURSIVE InitialQueue(_, _, _)
\* deque(v for v in range(n_vertices) if in_degree[v] == 0), from v on
InitialQueue(n_vertices, in_degree, v) ==
    IF v >= n_vertices THEN << >>
    ELSE (IF in_degree[v] = 0 THEN <<v>> ELSE << >>)
           \o InitialQueue(n_vertices, in_degree, v + 1)

RECURSIVE ReduceNeighborsAlways(_, _, _)
\* the neighbour loop appending every neighbour to the queue, whatever its
\* in-degree has become
ReduceNeighborsAlways(st, nbrs, j) ==
    IF j > Len(nbrs) THEN st
    ELSE LET v == nbrs[j]
         IN  ReduceNeighborsAlways(
                 [st EXCEPT !.in_degree[v] = @ - 1, !.queue = Append(@, v)],
                 nbrs, j + 1)

RECURSIVE ReduceNeighbors(_, _, _)
\* for v in graph[u]: in_degree[v] -= 1; if in_degree[v] == 0:
\* queue.append(v), from the j-th neighbour on
ReduceNeighbors(st, nbrs, j) ==
    IF j > Len(nbrs) THEN st
    ELSE LET v == nbrs[j]
             s1 == [st EXCEPT !.in_degree[v] = @ - 1]
             s2 == IF s1.in_degree[v] = 0
                   THEN [s1 EXCEPT !.queue = Append(@, v)]
                   ELSE s1
         IN  ReduceNeighbors(s2, nbrs, j + 1)

RECURSIVE KahnLoop(_, _)
\* while queue: u = queue.popleft(); result.append(u); reduce the neighbours
KahnLoop(st, graph) ==
    IF st.queue = << >> THEN st
    ELSE LET u == Head(st.queue)
             s1 == [st EXCEPT !.queue = Tail(@), !.result = Append(@, u)]
         IN  KahnLoop(ReduceNeighbors(s1, graph[u], 1), graph)

\* topological_sort_kahn(n_vertices, edges)
topological_sort_kahn(n_vertices, edges) ==
    LET g == BuildGraph([graph |-> [u \in 0 .. (n_vertices - 1) |-> << >>],
                         in_degree |-> Zeros(n_vertices)], edges, 0)
        st == KahnLoop([in_degree |-> g.in_degree,
                        queue |-> InitialQueue(n_vertices, g.in_degree, 0),
                        result |-> << >>], g.graph)
    IN  IF Len(st.result) = n_vertices THEN st.result ELSE << >>

\* ------------------------------------------------- one call of the function
TopoEdgeLists(k) ==
    UNION {Lists(m, (0 .. (k - 1)) \X (0 .. (k - 1))) : m \in 0 .. MaxTopoEdges}

InitTopo ==
    /\ SegIdle
    /\ fen = NoObject
    /\ uf = NoObject
    /\ ts = NoObject
    /\ dij = NoObject
    /\ \E k \in 1 .. MaxTopoN :
         \E edges \in TopoEdgeLists(k) :
            topo = [cls |-> "topological_sort", n_vertices |-> k,
                    edges |-> edges, op |-> "none", ret |-> << >>]

\* result = topological_sort_kahn(n_vertices, edges)
TopologicalSortKahn ==
    /\ topo.cls = "topological_sort"
    /\ topo.op = "none"
    /\ topo' = [topo EXCEPT
                   !.op = "topological_sort_kahn",
                   !.ret = topological_sort_kahn(topo.n_vertices, topo.edges)]
    /\ UNCHANGED <<segVars, fen, uf, ts, dij>>

NextTopo == TopologicalSortKahn

SpecTopo == InitTopo /\ [][NextTopo]_vars

\* the edges of the call as a set of pairs
TopoEdgeSet == {topo.edges[k] : k \in DOMAIN topo.edges}

RECURSIVE ReachedFrom(_, _)
\* the vertices reached from one of S along the edges E, S included
ReachedFrom(S, E) ==
    LET T == S \cup {e[2] : e \in {d \in E : d[1] \in S}}
    IN  IF T = S THEN S ELSE ReachedFrom(T, E)

\* no vertex is reached from one of its own successors
TopoAcyclic ==
    \A v \in 0 .. (topo.n_vertices - 1) :
        v \notin ReachedFrom({e[2] : e \in {d \in TopoEdgeSet : d[1] = v}},
                             TopoEdgeSet)

\* ----------------------------------------------------------------- C21
\* C21: for a graph on vertices 0 .. n-1, topological_sort_kahn returns a
\* permutation of all n vertices in which u precedes v for every edge
\* (u, v) when the graph is acyclic, and the empty list when it has a cycle
\* (a self-loop included).
C21_KahnOrdersDag ==
    (topo.cls = "topological_sort" /\ topo.op = "topological_sort_kahn") =>
        IF TopoAcyclic
        THEN /\ Len(topo.ret) = topo.n_vertices
             /\ {topo.ret[i] : i \in 1 .. Len(topo.ret)}
                  = 0 .. (topo.n_vertices - 1)
             /\ \A e \in TopoEdgeSet :
                   \E i \in 1 .. Len(topo.ret), j \in 1 .. Len(topo.ret) :
                       i < j /\ topo.ret[i] = e[1] /\ topo.ret[j] = e[2]
        ELSE topo.ret = << >>

\* a vertex with two distinct predecessors, the larger of them listed
\* first, was placed after both
C21_Witness ==
    /\ topo.cls = "topological_sort"
    /\ topo.op = "topological_sort_kahn"
    /\ topo.n_vertices = 3
    /\ topo.edges = [k \in 0 .. 1 |-> IF k = 0 THEN <<2, 0>> ELSE <<1, 0>>]
    /\ topo.ret = <<1, 2, 0>>

\* =====================================================================
\* templates/dijkstra.py: dijkstra_basic.  graph is a dict whose keys are
\* the nodes 0 .. k-1, graph[u] a tuple of pairs (v, weight) in list order.
\* dist is a defaultdict with default inf: it is the function over its keys,
\* and a node that is not a key reads as inf.  pq holds pairs (d, u); no
\* pair is pushed twice, since a push follows a strict decrease of dist[v],
\* so the heap is the set of its pairs and heappop removes the least one.
\* =====================================================================

\* weights of the edges
DijWeights == {0, 1, 3}
\* number of edges of the graphs
DijEdgeCounts == 0 .. 3

\* heappop taking the pair with the least node, whatever its distance
heappop_bynode(pq) ==
    CHOOSE p \in pq : \A q \in pq : p = q \/ TupleLess(<<p[2], p[1]>>, <<q[2], q[1]>>)

\* heapq.heappop(pq): the least pair (d, u) in tuple order
heappop(pq) == CHOOSE p \in pq : \A q \in pq : p = q \/ TupleLess(p, q)

\* dist[v] = x
SetDist(dist, v, x) ==
    [k \in DOMAIN dist \cup {v} |-> IF k = v THEN x ELSE dist[k]]

RECURSIVE RelaxEdges(_, _, _, _)
\* for v, weight in graph[u]: if dist[u] + weight < dist[v]: set dist[v]
\* and push (dist[v], v); from the j-th entry of graph[u] on
RelaxEdges(st, u, adj, j) ==
    IF j > Len(adj) THEN st
    ELSE LET v == adj[j][1]
             weight == adj[j][2]
             s1 == IF v \notin DOMAIN st.dist
                      \/ st.dist[u] + weight < st.dist[v]
                   THEN [st EXCEPT
                            !.dist = SetDist(@, v, st.dist[u] + weight),
                            !.pq = @ \cup {<<st.dist[u] + weight, v>>}]
                   ELSE st
         IN  RelaxEdges(s1, u, adj, j + 1)

RECURSIVE DijkstraLoop(_, _)
\* while pq.  popped lists, for every node popped while unvisited, the pair
\* (d, u) popped.
DijkstraLoop(st, graph) ==
    IF st.pq = {} THEN st
    ELSE LET p == heappop(st.pq)
             d == p[1]
             u == p[2]
             s1 == [st EXCEPT !.pq = @ \ {p}]
         IN  IF u \in s1.visited THEN DijkstraLoop(s1, graph)
             ELSE LET s2 == [s1 EXCEPT !.visited = @ \cup {u},
                                       !.popped = Append(@, p)]
                  IN  IF d > s2.dist[u] THEN DijkstraLoop(s2, graph)
                      ELSE DijkstraLoop(RelaxEdges(s2, u, graph[u], 1), graph)

\* the state dijkstra_basic(graph, start) ends in; its field dist is what
\* the function returns
dijkstra_basic(graph, start) ==
    DijkstraLoop([dist |-> SetDist(<< >>, start, 0),
                  pq |-> {<<0, start>>},
                  visited |-> {},
                  popped |-> << >>], graph)

\* ------------------------------------------------- one call of the function
RECURSIVE AdjacencyOf(_, _, _)
\* graph[u] for the edges (u, v, weight) listed in es, from the j-th on
AdjacencyOf(es, u, j) ==
    IF j > Len(es) THEN << >>
    ELSE (IF es[j][1] = u THEN <<(<<es[j][2], es[j][3]>>)>> ELSE << >>)
           \o AdjacencyOf(es, u, j + 1)

\* the adjacency dicts over nodes 0 .. k-1
DijGraphs(k) ==
    LET nodes == 0 .. (k - 1)
    IN  {[u \in nodes |-> AdjacencyOf(es, u, 1)] :
            es \in UNION {[1 .. m -> nodes \X nodes \X DijWeights] :
                             m \in DijEdgeCounts}}

InitDijkstra ==
    /\ SegIdle
    /\ fen = NoObject
    /\ uf = NoObject
    /\ ts = NoObject
    /\ topo = NoObject
    /\ \E k \in 1 .. MaxDijN :
         \E graph \in DijGraphs(k), start \in 0 .. (k - 1) :
            dij = [cls |-> "dijkstra", graph |-> graph, start |-> start,
                   op |-> "none", ret |-> << >>, popped |-> << >>]

\* dist = dijkstra_basic(graph, start)
DijkstraBasic ==
    /\ dij.cls = "dijkstra"
    /\ dij.op = "none"
    /\ LET st == dijkstra_basic(dij.graph, dij.start)
       IN  dij' = [dij EXCEPT !.op = "dijkstra_basic",
                              !.ret = st.dist,
                              !.popped = st.popped]
    /\ UNCHANGED <<segVars, fen, uf, ts, topo>>

NextDijkstra == DijkstraBasic

SpecDijkstra == InitDijkstra /\ [][NextDijkstra]_vars

\* the least element of a non-empty set of numbers
Least(S) == CHOOSE x \in S : \A y \in S : x <= y

RECURSIVE PathWeights(_, _)
\* the weight of a lightest path from start to every node some path reaches,
\* D being the weights found so far: one more edge is tried until none helps
PathWeights(D, graph) ==
    LET cand(v) == (IF v \in DOMAIN D THEN {D[v]} ELSE {})
                     \cup UNION {{D[u] + graph[u][j][2] :
                                     j \in {i \in 1 .. Len(graph[u]) :
                                               graph[u][i][1] = v}} :
                                 u \in DOMAIN D}
        reached == {v \in DOMAIN graph : cand(v) # {}}
        E == [v \in reached |-> Least(cand(v))]
    IN  IF E = D THEN D ELSE PathWeights(E, graph)

\* shortest-path weights from dij.start in dij.graph
Shortest == PathWeights(SetDist(<< >>, dij.start, 0), dij.graph)

\* ----------------------------------------------------------------- C22
\* C22: on a graph with non-negative weights whose nodes are all keys of
\* the adjacency dict, dijkstra_basic returns a dist that maps every node
\* reachable from start to the weight of a shortest path from start, with
\* dist[start] == 0, and the distance with which a node is first popped
\* unvisited is already that weight.
C22_DijkstraShortest ==
    (dij.cls = "dijkstra" /\ dij.op = "dijkstra_basic") =>
        /\ \A v \in DOMAIN Shortest :
              v \in DOMAIN dij.ret /\ dij.ret[v] = Shortest[v]
        /\ dij.ret[dij.start] = 0
        /\ \A i \in 1 .. Len(dij.popped) :
              /\ dij.popped[i][1] = Shortest[dij.popped[i][2]]
              /\ \A j \in 1 .. Len(dij.popped) :
                    i # j => dij.popped[i][2] # dij.popped[j][2]

\* a node was first given a distance over a direct edge and then a smaller
\* one over a two-edge path, so the heap held a stale pair for it
C22_Witness ==
    /\ dij.cls = "dijkstra"
    /\ dij.op = "dijkstra_basic"
    /\ DOMAIN dij.graph = 0 .. 2
    /\ dij.start = 0
    /\ dij.graph[0] = <<(<<1, 3>>), (<<2, 1>>)>>
    /\ dij.graph[2] = <<(<<1, 1>>)>>
    /\ dij.graph[1] = << >>
    /\ dij.ret[1] = 2
    /\ Len(dij.popped) = 3

\* ----------------------------------------------------------------- C23
\* C23: _push(node, start, end) with lazy[node] = p != 0 adds
\* (end - start + 1) * p to tree[node], adds p to lazy of both children
\* only when start != end, sets lazy[node] to 0 and changes no other entry;
\* with lazy[node] == 0 it changes nothing.  Checked for every node of the
\* tree in every state a LazySegmentTree reaches.
C23_PushPrimitive ==
    IsLazy =>
        \A nd \in Shape(0, 0, n - 1) :
            LET node == nd[1]
                start == nd[2]
                end == nd[3]
                p == lazy[node]
                kids == IF start # end THEN {2 * node + 1, 2 * node + 2} ELSE {}
                s == _push(Enter(tree, lazy), node, start, end)
            IN  /\ ~s.err
                /\ DOMAIN s.tree = DOMAIN tree
                /\ DOMAIN s.lazy = DOMAIN lazy
                /\ p = 0 => (s.tree = tree /\ s.lazy = lazy)
                /\ p # 0 =>
                      /\ s.tree[node] = tree[node] + (end - start + 1) * p
                      /\ s.lazy[node] = 0
                      /\ \A i \in kids : s.lazy[i] = lazy[i] + p
                      /\ \A i \in DOMAIN tree \ {node} : s.tree[i] = tree[i]
                      /\ \A i \in DOMAIN lazy \ (kids \cup {node}) :
                            s.lazy[i] = lazy[i]

\* the node over [0, 1] holds a pending amount while its left child still
\* holds an earlier one: _push leaves the child with the sum of the two
C23_Witness ==
    /\ IsLazy
    /\ n = 3
    /\ lazy[1] # 0
    /\ lazy[3] # 0
    /\ lazy[3] + lazy[1] \notin {0, lazy[1], lazy[3]}
    /\ _push(Enter(tree, lazy), 1, 0, 1).lazy[3] = lazy[3] + lazy[1]
    /\ _push(Enter(tree, lazy), 1, 0, 1).lazy[1] = 0

\* ----------------------------------------------------------------- C24
\* C24: whenever range_update recomputes tree[node] of a partially
\* overlapped node after recursing, both children have lazy == 0 and each
\* child's tree value is the sum of its range in the list as the update
\* leaves it, so the recomputed tree[node] is the sum of the node's range.
C24_ResumFromCurrentChildren ==
    (IsLazy /\ op.name = "range_update") =>
        \A k \in DOMAIN trace :
            trace[k].ev = "resum" =>
                LET e == trace[k]
                    mid == (e.start + e.end) \div 2
                IN  /\ e.lazy_left = 0
                    /\ e.lazy_right = 0
                    /\ e.tree_left = SumRange(ref, e.start, mid)
                    /\ e.tree_right = SumRange(ref, mid + 1, e.end)
                    /\ e.tree_node = SumRange(ref, e.start, e.end)

\* a range_update of [0, 0] that re-summed the node over [0, 1] from the
\* left child it covered and a right child whose element an earlier
\* update had changed
C24_Witness ==
    /\ IsLazy
    /\ n = 3
    /\ op.name = "range_update"
    /\ op.l = 0
    /\ op.r = 0
    /\ op.val # 0
    /\ before[1] \notin Values
    /\ \E k \in DOMAIN trace :
          /\ trace[k].ev = "resum"
          /\ trace[k].node = 1
          /\ trace[k].tree_right = before[1]
          /\ trace[k].tree_left = before[0] + op.val

\* =====================================================================
\* The recursion of one call, step by step.  The object is built from a
\* list of zeros and updated with zeros, so that tree and lazy hold zeros
\* at every point of every call and only the calls in progress change.
\* ctor.stack holds the frames of the recursive helper calls in progress,
\* the innermost last; last is the child call a frame made most recently.
\* =====================================================================

Frame(node, start, end) ==
    [node |-> node, start |-> start, end |-> end, last |-> "none"]

\* mid rounded up
MidCeil(f) == (f.start + f.end + 1) \div 2

\* mid = (start + end) // 2
Mid(f) == (f.start + f.end) \div 2

\* the frame goes on to the recursive branch of its helper
Recurses(f) ==
    IF op.name \in {"__init__", "update"}
    THEN f.start # f.end
    ELSE /\ ~(op.r < f.start \/ f.end < op.l)
         /\ ~(op.l <= f.start /\ f.end <= op.r)

\* the helper calls itself on the left / right child in that branch
LeftCalled(f) == Recurses(f) /\ (op.name = "update" => op.l <= Mid(f))
RightCalled(f) == Recurses(f) /\ (op.name = "update" => op.l > Mid(f))

Top == ctor.stack[Len(ctor.stack)]

\* the calls a script makes on an object of class c and length k
RunCalls(c, k) ==
    {Call("__init__", 0, k - 1, 0)}
      \cup (IF c = "SegmentTree"
            THEN {Call("update", i, i, 0) : i \in 0 .. (k - 1)}
                   \cup {Call("query", lr[1], lr[2], 0) :
                            lr \in {x \in (0 .. (k - 1)) \X (0 .. (k - 1)) :
                                       x[1] <= x[2]}}
            ELSE {Call(m, lr[1], lr[2], 0) :
                     m \in {"range_update", "range_query"},
                     lr \in {x \in (0 .. (k - 1)) \X (0 .. (k - 1)) :
                                x[1] <= x[2]}})

\* a call has just entered its helper at the root
InitRun ==
    /\ \E c \in Classes, k \in 1 .. MaxNRun :
         /\ cls = c
         /\ n = k
         /\ tree = Zeros(Size(k))
         /\ lazy = IF c = "SegmentTree" THEN << >> ELSE Zeros(Size(k))
         /\ ref = Zeros(k)
         /\ before = Zeros(k)
         /\ \E call \in RunCalls(c, k) : op = call
         /\ ctor = [pc |-> "running", stack |-> <<Frame(0, 0, k - 1)>>,
                    calls |-> 1, exc |-> "none"]
    /\ ret = "None"
    /\ touched = {}
    /\ written = {}
    /\ trace = << >>
    /\ err = FALSE
    /\ budget = 0
    /\ fen = NoObject
    /\ uf = NoObject
    /\ ts = NoObject
    /\ topo = NoObject
    /\ dij = NoObject

\* the innermost call calls the helper on child; the stack holds the frames
\* of the script and of the public method below those of the helper
Descend(side, child) ==
    /\ Len(ctor.stack) + 3 < RecursionLimit
    /\ ctor' = [ctor EXCEPT
                   !.stack = Append([@ EXCEPT ![Len(@)].last = side], child),
                   !.calls = @ + 1]
    /\ UNCHANGED <<cls, n, tree, lazy, op, ret, touched, written, trace, err,
                   ref, before, budget, fen, uf, ts, topo, dij>>

\* helper(..., 2 * node + 1, start, mid)
CallLeft ==
    /\ ctor.pc = "running"
    /\ Top.last = "none"
    /\ LeftCalled(Top)
    /\ Descend("left", Frame(2 * Top.node + 1, Top.start, Mid(Top)))

\* helper(..., 2 * node + 2, mid + 1, end)
CallRight ==
    /\ ctor.pc = "running"
    /\ RightCalled(Top)
    /\ Top.last = "left" \/ (Top.last = "none" /\ ~LeftCalled(Top))
    /\ Descend("right", Frame(2 * Top.node + 2, Mid(Top) + 1, Top.end))

\* the innermost call returns: from a branch that does not recurse, or
\* after the last child call of the recursive branch
ReturnFrame ==
    /\ ctor.pc = "running"
    /\ \/ ~Recurses(Top)
       \/ Top.last = "right"
       \/ Top.last = "left" /\ ~RightCalled(Top)
    /\ ctor' = [ctor EXCEPT
                   !.stack = SubSeq(@, 1, Len(@) - 1),
                   !.pc = IF Len(ctor.stack) = 1 THEN "returned" ELSE @]
    /\ UNCHANGED <<cls, n, tree, lazy, op, ret, touched, written, trace, err,
                   ref, before, budget, fen, uf, ts, topo, dij>>

NextRun ==
    \/ CallLeft
    \/ CallRight
    \/ ReturnFrame

\* the interpreter runs the call on: a step that can be taken is taken
SpecRun == InitRun /\ [][NextRun]_vars /\ WF_vars(NextRun)

\* every call in progress is on a range start <= end that lies inside, and
\* is strictly shorter than, the range of the call that made it
FramesShrink ==
    \A i \in 1 .. Len(ctor.stack) :
        /\ ctor.stack[i].start <= ctor.stack[i].end
        /\ i > 1 =>
              /\ ctor.stack[i - 1].start <= ctor.stack[i].start
              /\ ctor.stack[i].end <= ctor.stack[i - 1].end
              /\ ctor.stack[i].end - ctor.stack[i].start
                   < ctor.stack[i - 1].end - ctor.stack[i - 1].start

\* ----------------------------------------------------------------- C25
\* C25: for every n >= 1 and valid arguments, build, update, query,
\* range_update and range_query each run to completion, and every
\* recursive call is on a range [start, end] with start <= end strictly
\* smaller than its parent's range.
C25_Terminates ==
    /\ []FramesShrink
    /\ <>(ctor.pc = "returned")

\* the constructor of the longest list returned after build was called on
\* every one of the 2n - 1 nodes
C25_Witness ==
    /\ ctor.pc = "returned"
    /\ op.name = "__init__"
    /\ n = MaxNRun
    /\ ctor.calls = 2 * n - 1

\* ----------------------------------------------------------------- C26
\* indices outside 0 .. n-1, up to three positions away on either side
OutsideIndices == ((0 - 3) .. (0 - 1)) \cup (n .. (n + 2))

\* every inner node of the tree holds the sum of its two children
SumsOfChildren ==
    \A t \in Shape(0, 0, n - 1) :
        t[2] < t[3] => tree[t[1]] = tree[2 * t[1] + 1] + tree[2 * t[1] + 2]

\* the element an update with index idx reaches
Reached(idx) == IF idx < 0 THEN 0 ELSE IF idx >= n THEN n - 1 ELSE idx

====
